---- MODULE Spec2Model ----
(***************************************************************************)
(* DROMA MCP server: the dataset registry (DromaState.datasets,            *)
(* multidatasets and the two active pointers), the R environment the       *)
(* registry drives through DromaState.r, the result cache                  *)
(* (DromaState.data_cache) and the cache-key builders.                     *)
(*                                                                         *)
(* Python strings whose characters the code inspects (dataset ids, R       *)
(* object names) are sequences of one-character strings; strings that are  *)
(* only concatenated and compared (cache keys, paths) are TLA+ strings.    *)
(***************************************************************************)
EXTENDS Integers, Sequences, FiniteSets, TLC

VARIABLES
    datasets,             \* DromaState.datasets: dataset id -> R object name
    multidatasets,        \* DromaState.multidatasets: dataset id -> R object name
    active_dataset,       \* DromaState.active_dataset: id or None
    active_multidataset,  \* DromaState.active_multidataset: id or None
    r,                    \* DromaState.r is not None (the R runtime is attached)
    renv,                 \* the R global environment: object name -> object
    task,                 \* per concurrent tool call: where it is suspended
    ev,                   \* the step taken last and what it returned
    data_cache,           \* DromaState.data_cache: key -> entry
    now,                  \* the clock pd.Timestamp.now() reads
    last_put,             \* per key, the arguments of the latest cache_data call
                          \* and whether it replaced an entry
    kd,                   \* requests and the cache keys derived for them
    EXPORTS,              \* util.EXPORTS: export id -> file path
    FIGURES,              \* util.FIGURES: figure id -> file path
    files                 \* the temporary directories: file path -> mtime

vars == <<datasets, multidatasets, active_dataset, active_multidataset, r, renv,
          task, ev, data_cache, now, last_put, kd, EXPORTS, FIGURES, files>>

registry == <<datasets, multidatasets, active_dataset, active_multidataset>>
cache == <<data_cache, now, last_put>>
exports == <<EXPORTS, FIGURES, files>>

\* The registry and the R environment as one value, for the operators below.
Cur == [ds |-> datasets, mds |-> multidatasets, ad |-> active_dataset,
        amd |-> active_multidataset, renv |-> renv]

-----------------------------------------------------------------------------
(* Values *)

\* Python None, where a dataset id or an R object name is expected.
None == <<"None">>

\* A Python value used as a condition: None and the empty string are falsy.
Truthy(s) == s # None /\ s # <<>>

\* Dataset ids a caller may send: "A" and "A,B" (the comma-separated form of
\* a MultiDromaSet, which R cannot parse as the name of a DromaSet).
DatasetIds == { <<"A">>, <<"A", ",", "B">> }

DatasetTypes == {"DromaSet", "MultiDromaSet"}

\* db_path of a request: None, an existing file, a file that does not exist.
PathNone == "None"
RequestPaths == {PathNone, "/db", "/missing"}
\* os.environ.get('DROMA_DB_PATH'): unset, or an existing file.
EnvPaths == {PathNone, "/envdb"}
\* Path(db_path).exists()
PathExists(p) == p \in {"/db", "/envdb"}

\* The number of tool calls that may be suspended at an await at once.
MaxInFlight == 1
Tasks == 1..MaxInFlight

\* A suspended load_dataset keeps its request; its db_path goes into the text
\* of the R command and decides nothing after the await, so it is not kept.
Idle == [pc |-> "idle", id |-> None, kind |-> "DromaSet", set_active |-> FALSE]

\* str.replace(old, new) on single characters.
Replace(s, old, new) == [i \in 1..Len(s) |-> IF s[i] = old THEN new ELSE s[i]]

\* The domain of a mapping without one key (del d[k]).
Del(d, k) == [x \in (DOMAIN d) \ {k} |-> d[x]]
\* d[k] = v on a dict.
Put(d, k, v) == [x \in (DOMAIN d) \cup {k} |-> IF x = k THEN v ELSE d[x]]
\* d.get(k)
Get(d, k) == IF k \in DOMAIN d THEN d[k] ELSE None

-----------------------------------------------------------------------------
(* The R runtime behind DromaState.r *)

\* The name the create command assigns to: "{dataset_id} <- ..." for a
\* DromaSet, "{dataset_id.replace(",", "_")} <- ..." for a MultiDromaSet.
CreateTarget(dataset_id, dataset_type) ==
    IF dataset_type = "DromaSet" THEN dataset_id
    ELSE Replace(dataset_id, ",", "_")

\* R parses "<name> <- f(...)" only when <name> is a syntactic name: the
\* empty string and a name holding a comma are parse errors, which rpy2
\* raises.
RParses(name) == name # <<>> /\ \A i \in 1..Len(name) : name[i] # ","

\* The object createDromaSetFromDatabase / createMultiDromaSetFromDatabase
\* returns for the projects of dataset_id.
RObject(dataset_id, dataset_type) == [cls |-> dataset_type, projects |-> dataset_id]

\* One call of DromaState.r: the command, the object name it is about and
\* whether it returned (TRUE) or raised (FALSE).
RCall(cmd, name, ok) == [cmd |-> cmd, name |-> name, ok |-> ok]

\* str(e) of the exception a failed call of DromaState.r raises.
RErrorText == "R error"

\* R after "name <- obj".
RAssign(env, name, obj) == Put(env, name, obj)
\* R after "rm(name)".
RRemove(env, name) == Del(env, name)

-----------------------------------------------------------------------------
(* DromaState *)

\* The handle map and the active pointer of a kind.
Handles(s, dataset_type) == IF dataset_type = "DromaSet" THEN s.ds ELSE s.mds
Active(s, dataset_type) == IF dataset_type = "DromaSet" THEN s.ad ELSE s.amd

\* Variant: the id is stored as it came, without the comma replacement.
StoredName_Raw(dataset_id, dataset_type) == dataset_id

\* What DromaState.load_dataset stores as the handle's R object name.
StoredName(dataset_id, dataset_type) ==
    IF dataset_type = "DromaSet" THEN dataset_id
    ELSE Replace(dataset_id, ",", "_")

\* Variant: the handle is stored before the R command has returned.
StateLoadDataset_StoresFirst(s, dataset_id, dataset_type, r_ok) ==
    LET target == CreateTarget(dataset_id, dataset_type)
        returned == r_ok /\ RParses(target)
        stored == IF dataset_type = "DromaSet"
                  THEN [s EXCEPT !.ds = Put(s.ds, dataset_id, target)]
                  ELSE [s EXCEPT !.mds = Put(s.mds, dataset_id, target)]
    IN  [ok |-> returned,
         s |-> IF returned
               THEN [stored EXCEPT !.renv = RAssign(s.renv, target,
                                                    RObject(dataset_id, dataset_type))]
               ELSE stored,
         calls |-> <<RCall("create", target, returned)>>]

\* DromaState.load_dataset with R attached.  r_ok: the R command returns
\* rather than raises.  ok is the method's return value.
StateLoadDataset(s, dataset_id, dataset_type, r_ok) ==
    LET target == CreateTarget(dataset_id, dataset_type)
        returned == r_ok /\ RParses(target)
        env == RAssign(s.renv, target, RObject(dataset_id, dataset_type))
        name == StoredName(dataset_id, dataset_type)
    IN  IF ~returned
        THEN [ok |-> FALSE, s |-> s, calls |-> <<RCall("create", target, FALSE)>>]
        ELSE [ok |-> TRUE,
              s |-> IF dataset_type = "DromaSet"
                    THEN [s EXCEPT !.renv = env, !.ds = Put(s.ds, dataset_id, name)]
                    ELSE [s EXCEPT !.renv = env, !.mds = Put(s.mds, dataset_id, name)],
              calls |-> <<RCall("create", target, TRUE)>>]

\* DromaState.get_dataset
get_dataset(s, dataset_id) ==
    IF Truthy(dataset_id) THEN Get(s.ds, dataset_id)
    ELSE IF Truthy(s.ad) THEN Get(s.ds, s.ad) ELSE None

\* DromaState.get_multidataset
get_multidataset(s, dataset_id) ==
    IF Truthy(dataset_id) THEN Get(s.mds, dataset_id)
    ELSE IF Truthy(s.amd) THEN Get(s.mds, s.amd) ELSE None

\* resolve(id | none, kind): get_dataset or get_multidataset.
Resolve(s, dataset_id, dataset_type) ==
    IF dataset_type = "DromaSet" THEN get_dataset(s, dataset_id)
    ELSE get_multidataset(s, dataset_id)

\* Variant: the id is looked up in both maps, whatever the kind.
StateSetActive_AnyKind(s, dataset_id, dataset_type) ==
    IF dataset_id \in (DOMAIN s.ds) \cup (DOMAIN s.mds)
    THEN [raised |-> FALSE,
          s |-> IF dataset_type = "DromaSet" THEN [s EXCEPT !.ad = dataset_id]
                ELSE [s EXCEPT !.amd = dataset_id]]
    ELSE [raised |-> TRUE, s |-> s]

\* DromaState.set_active_dataset: raised is its ValueError.
StateSetActive(s, dataset_id, dataset_type) ==
    IF dataset_type = "DromaSet" /\ dataset_id \in DOMAIN s.ds
    THEN [raised |-> FALSE, s |-> [s EXCEPT !.ad = dataset_id]]
    ELSE IF dataset_type = "MultiDromaSet" /\ dataset_id \in DOMAIN s.mds
    THEN [raised |-> FALSE, s |-> [s EXCEPT !.amd = dataset_id]]
    ELSE [raised |-> TRUE, s |-> s]

-----------------------------------------------------------------------------
(* dataset_management.py: what each tool does to the state and returns *)

\* Variant: the configured path is used in preference to the request's.
GetDatabasePath_EnvFirst(request_db_path, env_db_path) ==
    LET db_path == IF env_db_path # PathNone THEN env_db_path
                   ELSE request_db_path
    IN  IF db_path = PathNone THEN PathNone
        ELSE IF ~PathExists(db_path) THEN PathNone
        ELSE db_path

\* _get_database_path: the path, or PathNone when it raises RuntimeError.
GetDatabasePath(request_db_path, env_db_path) ==
    LET db_path == IF request_db_path # PathNone THEN request_db_path
                   ELSE env_db_path
    IN  IF db_path = PathNone THEN PathNone
        ELSE IF ~PathExists(db_path) THEN PathNone
        ELSE db_path

\* The text of the RuntimeError of _get_database_path.
DatabasePathError(request_db_path, env_db_path) ==
    IF request_db_path = PathNone /\ env_db_path = PathNone
    THEN "No database path configured"
    ELSE "Database file not found"

\* Variant: a loaded dataset is made active whether or not it was requested.
LoadTool_AlwaysActive(s, r_attached, dataset_id, dataset_type, set_active, r_ok) ==
    IF ~r_attached
    THEN [status |-> "error",
          message |-> "Failed to load dataset: {str(e)}",
          detail |-> "R environment not available",
          s |-> s, calls |-> <<>>]
    ELSE LET res == StateLoadDataset(s, dataset_id, dataset_type, r_ok)
         IN  IF ~res.ok
             THEN [status |-> "error", message |-> "Failed to load dataset",
                   detail |-> "",
                   s |-> res.s, calls |-> res.calls]
             ELSE [status |-> "success",
                   message |-> "Successfully loaded dataset and set as active",
                   detail |-> "",
                   s |-> StateSetActive(res.s, dataset_id, dataset_type).s,
                   calls |-> res.calls]

\* Variant: DromaState.load_dataset does not look at whether R is attached.
LoadTool_NoRuntimeCheck(s, r_attached, dataset_id, dataset_type, set_active, r_ok) ==
    LET res == StateLoadDataset(s, dataset_id, dataset_type, r_ok)
    IN  IF ~res.ok
        THEN [status |-> "error", message |-> "Failed to load dataset",
              detail |-> "", s |-> res.s, calls |-> res.calls]
        ELSE IF set_active
        THEN [status |-> "success",
              message |-> "Successfully loaded dataset and set as active",
              detail |-> "",
              s |-> StateSetActive(res.s, dataset_id, dataset_type).s,
              calls |-> res.calls]
        ELSE [status |-> "success", message |-> "Successfully loaded dataset",
              detail |-> "", s |-> res.s, calls |-> res.calls]

\* load_dataset after "await ctx.info": DromaState.load_dataset, then
\* set_active_dataset when requested.
LoadTool(s, r_attached, dataset_id, dataset_type, set_active, r_ok) ==
    IF ~r_attached
    THEN [status |-> "error",
          message |-> "Failed to load dataset: {str(e)}",
          detail |-> "R environment not available",
          s |-> s, calls |-> <<>>]
    ELSE LET res == StateLoadDataset(s, dataset_id, dataset_type, r_ok)
         IN  IF ~res.ok
             THEN [status |-> "error", message |-> "Failed to load dataset",
                   detail |-> "",
                   s |-> res.s, calls |-> res.calls]
             ELSE IF set_active
             THEN LET act == StateSetActive(res.s, dataset_id, dataset_type)
                  IN  [status |-> "success",
                       message |-> IF act.raised
                                   THEN "Successfully loaded dataset but failed to set as active"
                                   ELSE "Successfully loaded dataset and set as active",
                       detail |-> "",
                       s |-> act.s, calls |-> res.calls]
             ELSE [status |-> "success", message |-> "Successfully loaded dataset",
                   detail |-> "",
                   s |-> res.s, calls |-> res.calls]

\* set_active_dataset
SetActiveTool(s, dataset_id, dataset_type) ==
    LET act == StateSetActive(s, dataset_id, dataset_type)
    IN  IF act.raised
        THEN [status |-> "error", message |-> "Failed to set active dataset: {str(e)}",
              detail |-> "not found",
              s |-> s, calls |-> <<>>]
        ELSE [status |-> "success", message |-> "Successfully set as active", detail |-> "",
              s |-> act.s, calls |-> <<>>]

\* Variants: the pointer is never cleared; the pointer is always cleared.
ClearIfActive_Never(active, dataset_id) == active
ClearIfActive_Always(active, dataset_id) == None

\* unload_dataset: "if active == dataset_id: active = None".
ClearIfActive(active, dataset_id) == IF active = dataset_id THEN None ELSE active

\* Variant: the R object named by the id is removed before the id is looked up.
UnloadTool_RemovesFirst(s, r_attached, dataset_id, dataset_type, r_ok) ==
    LET name == StoredName(dataset_id, dataset_type)
        env == IF r_attached /\ r_ok THEN RRemove(s.renv, name) ELSE s.renv
        calls == IF r_attached THEN <<RCall("rm", name, r_ok)>> ELSE <<>>
    IN  IF dataset_id \notin DOMAIN Handles(s, dataset_type)
        THEN [status |-> "warning", message |-> "is not loaded", detail |-> "",
              s |-> [s EXCEPT !.renv = env], calls |-> calls]
        ELSE [status |-> "success", message |-> "Successfully unloaded dataset",
                   detail |-> "",
              s |-> [s EXCEPT !.renv = env,
                              !.ds = IF dataset_type = "DromaSet"
                                     THEN Del(s.ds, dataset_id) ELSE s.ds,
                              !.mds = IF dataset_type = "DromaSet"
                                      THEN s.mds ELSE Del(s.mds, dataset_id),
                              !.ad = IF dataset_type = "DromaSet"
                                     THEN ClearIfActive(s.ad, dataset_id) ELSE s.ad,
                              !.amd = IF dataset_type = "DromaSet"
                                      THEN s.amd ELSE ClearIfActive(s.amd, dataset_id)],
              calls |-> calls]

\* Variant: an rm command that raises ends the call with an error.
UnloadTool_PropagatesRelease(s, r_attached, dataset_id, dataset_type, r_ok) ==
    LET handles == Handles(s, dataset_type)
        single == dataset_type = "DromaSet"
    IN  IF dataset_id \notin DOMAIN handles
        THEN [status |-> "warning", message |-> "is not loaded", detail |-> "",
              s |-> s, calls |-> <<>>]
        ELSE IF r_attached /\ ~r_ok
        THEN [status |-> "error", message |-> "Failed to unload dataset: {str(e)}",
              detail |-> "R error", s |-> s,
              calls |-> <<RCall("rm", handles[dataset_id], FALSE)>>]
        ELSE [status |-> "success", message |-> "Successfully unloaded dataset",
              detail |-> "",
              s |-> [s EXCEPT
                      !.renv = IF r_attached THEN RRemove(s.renv, handles[dataset_id])
                               ELSE s.renv,
                      !.ds = IF single THEN Del(s.ds, dataset_id) ELSE s.ds,
                      !.mds = IF single THEN s.mds ELSE Del(s.mds, dataset_id),
                      !.ad = IF single THEN ClearIfActive(s.ad, dataset_id) ELSE s.ad,
                      !.amd = IF single THEN s.amd
                              ELSE ClearIfActive(s.amd, dataset_id)],
              calls |-> IF r_attached THEN <<RCall("rm", handles[dataset_id], TRUE)>>
                        ELSE <<>>]

\* Variant: unloading a MultiDromaSet resets the pointer of the DromaSets.
UnloadTool_ResetsOtherPointer(s, r_attached, dataset_id, dataset_type, r_ok) ==
    LET h == Handles(s, dataset_type)
    IN  IF dataset_id \notin DOMAIN h
        THEN [status |-> "warning", message |-> "is not loaded", detail |-> "",
              s |-> s, calls |-> <<>>]
        ELSE [status |-> "success", message |-> "Successfully unloaded dataset",
              detail |-> "",
              s |-> [s EXCEPT
                      !.renv = IF r_attached /\ r_ok
                               THEN RRemove(s.renv, h[dataset_id]) ELSE s.renv,
                      !.ds = IF dataset_type = "DromaSet"
                             THEN Del(s.ds, dataset_id) ELSE s.ds,
                      !.mds = IF dataset_type = "DromaSet"
                              THEN s.mds ELSE Del(s.mds, dataset_id),
                      !.ad = IF dataset_type = "DromaSet"
                             THEN ClearIfActive(s.ad, dataset_id) ELSE None,
                      !.amd = IF dataset_type = "DromaSet"
                              THEN s.amd ELSE ClearIfActive(s.amd, dataset_id)],
              calls |-> IF r_attached THEN <<RCall("rm", h[dataset_id], r_ok)>>
                        ELSE <<>>]

\* unload_dataset.  r_ok: the rm command returns rather than raises.
UnloadTool(s, r_attached, dataset_id, dataset_type, r_ok) ==
    IF dataset_type = "DromaSet"
    THEN IF dataset_id \notin DOMAIN s.ds
         THEN [status |-> "warning", message |-> "is not loaded", detail |-> "", s |-> s,
               calls |-> <<>>]
         ELSE LET r_object_name == s.ds[dataset_id]
              IN  [status |-> "success", message |-> "Successfully unloaded dataset",
                   detail |-> "",
                   s |-> [s EXCEPT
                           !.renv = IF r_attached /\ r_ok
                                    THEN RRemove(s.renv, r_object_name) ELSE s.renv,
                           !.ds = Del(s.ds, dataset_id),
                           !.ad = ClearIfActive(s.ad, dataset_id)],
                   calls |-> IF r_attached THEN <<RCall("rm", r_object_name, r_ok)>>
                             ELSE <<>>]
    ELSE IF dataset_id \notin DOMAIN s.mds
         THEN [status |-> "warning", message |-> "is not loaded", detail |-> "", s |-> s,
               calls |-> <<>>]
         ELSE LET r_object_name == s.mds[dataset_id]
              IN  [status |-> "success", message |-> "Successfully unloaded dataset",
                   detail |-> "",
                   s |-> [s EXCEPT
                           !.renv = IF r_attached /\ r_ok
                                    THEN RRemove(s.renv, r_object_name) ELSE s.renv,
                           !.mds = Del(s.mds, dataset_id),
                           !.amd = ClearIfActive(s.amd, dataset_id)],
                   calls |-> IF r_attached THEN <<RCall("rm", r_object_name, r_ok)>>
                             ELSE <<>>]

\* What a handler step did and returned: the tool, the request's dataset_id,
\* dataset_type and set_active, the result's "status", which of its messages
\* the result carries, the text of the exception that the message quotes
\* (detail, "" when it quotes none), and the calls of DromaState.r the step
\* made, in order.
Event(op, dataset_id, dataset_type, set_active, res) ==
    [op |-> op, id |-> dataset_id, kind |-> dataset_type, set_active |-> set_active,
     status |-> res.status, message |-> res.message, detail |-> res.detail,
     calls |-> res.calls]

\* The state variables take the values of s.
Becomes(s) ==
    /\ datasets' = s.ds
    /\ multidatasets' = s.mds
    /\ active_dataset' = s.ad
    /\ active_multidataset' = s.amd
    /\ renv' = s.renv

-----------------------------------------------------------------------------
(* Tool handlers of dataset_management.py.  A handler runs without         *)
(* interruption between two awaits; ctx.info and ctx.error are its awaits. *)
(* load_dataset awaits before it touches the state, so it is two steps and *)
(* other handlers run between them; set_active_dataset and unload_dataset  *)
(* await only after their last write and the choice of their status, so    *)
(* each is one step.                                                       *)

\* load_dataset up to "await ctx.info(...)": the path check.
LoadBegin(t, dataset_id, dataset_type, request_db_path, env_db_path, set_active) ==
    /\ task[t].pc = "idle"
    /\ LET db_path == GetDatabasePath(request_db_path, env_db_path)
       IN  IF db_path = PathNone
           THEN /\ ev' = Event("load_dataset", dataset_id, dataset_type, set_active,
                               [status |-> "error",
                                message |-> "Failed to load dataset: {str(e)}",
                                detail |-> DatabasePathError(request_db_path, env_db_path),
                                calls |-> <<>>])
                /\ UNCHANGED task
           ELSE /\ ev' = Event("load_dataset", dataset_id, dataset_type, set_active,
                               [status |-> "awaiting", message |-> "Loading dataset", detail |-> "",
                                calls |-> <<>>])
                /\ task' = [task EXCEPT ![t] =
                       [pc |-> "load", id |-> dataset_id, kind |-> dataset_type,
                        set_active |-> set_active]]
    /\ UNCHANGED <<registry, r, renv, cache, kd, exports>>

\* load_dataset from the await on.
LoadResume(t, r_ok) ==
    /\ task[t].pc = "load"
    /\ LET q == task[t]
           res == LoadTool(Cur, r, q.id, q.kind, q.set_active, r_ok)
       IN  /\ Becomes(res.s)
           /\ ev' = Event("load_dataset", q.id, q.kind, q.set_active, res)
    /\ task' = [task EXCEPT ![t] = Idle]
    /\ UNCHANGED <<r, cache, kd, exports>>

\* set_active_dataset
SetActive(dataset_id, dataset_type) ==
    /\ LET res == SetActiveTool(Cur, dataset_id, dataset_type)
       IN  /\ Becomes(res.s)
           /\ ev' = Event("set_active_dataset", dataset_id, dataset_type, FALSE, res)
    /\ UNCHANGED <<r, task, cache, kd, exports>>

\* unload_dataset
Unload(dataset_id, dataset_type, r_ok) ==
    /\ LET res == UnloadTool(Cur, r, dataset_id, dataset_type, r_ok)
       IN  /\ Becomes(res.s)
           /\ ev' = Event("unload_dataset", dataset_id, dataset_type, FALSE, res)
    /\ UNCHANGED <<r, task, cache, kd, exports>>

-----------------------------------------------------------------------------
(* The server *)

NoEvent == Event("none", None, "DromaSet", FALSE,
                 [status |-> "none", message |-> "none", detail |-> "", calls |-> <<>>])

\* DromaState.__init__ without the cache, with R attached or not.
InitRegistry ==
    /\ datasets = <<>>
    /\ multidatasets = <<>>
    /\ active_dataset = None
    /\ active_multidataset = None
    /\ r \in BOOLEAN
    /\ renv = <<>>
    /\ task = [t \in Tasks |-> Idle]
    /\ ev = NoEvent

\* util.EXPORTS and util.FIGURES when the module is imported, and the
\* temporary directories without a file of the server.
InitExports ==
    /\ EXPORTS = <<>>
    /\ FIGURES = <<>>
    /\ files = <<>>

\* DromaState.__init__, with R attached or not, and no key derived.
InitState ==
    /\ InitRegistry
    /\ InitExports
    /\ data_cache = <<>>
    /\ now = 0
    /\ last_put = <<>>

Init == InitState /\ kd = [reqs |-> <<>>, keys |-> <<>>]

Next ==
    \/ \E t \in Tasks, id \in DatasetIds, k \in DatasetTypes, p \in RequestPaths,
          e \in EnvPaths, sa \in BOOLEAN : LoadBegin(t, id, k, p, e, sa)
    \/ \E t \in Tasks, r_ok \in BOOLEAN : LoadResume(t, r_ok)
    \/ \E id \in DatasetIds, k \in DatasetTypes : SetActive(id, k)
    \/ \E id \in DatasetIds, k \in DatasetTypes, r_ok \in BOOLEAN : Unload(id, k, r_ok)

Spec == Init /\ [][Next]_vars

-----------------------------------------------------------------------------
(* The result cache: DromaState.cache_data and DromaState.get_cached_data, *)
(* called directly with keys, data and metadata from small sets.           *)

CacheKeys == {"mol_profiles_A_mRNA", "treatment_response_A"}
\* Data frames, as sequences of rows.
Frames == { <<>>, <<<<0>>>>, <<<<1>>>> }
\* The metadata argument: None, an empty dict or a dict with entries.
MetadataArgs == {"None", "{}", "{'zscore': True}"}
\* The clock stops here.
MaxClock == 1

\* "metadata or {}"
MetadataOrEmpty(metadata) == IF metadata \in {"None", "{}"} THEN "{}" ELSE metadata

\* Variant: an entry already in the cache is kept (dict.setdefault).
cache_data_KeepsFirst(data_cache_, key, data, metadata, timestamp) ==
    IF key \in DOMAIN data_cache_ THEN data_cache_
    ELSE Put(data_cache_, key, [data |-> data, metadata |-> MetadataOrEmpty(metadata),
                                timestamp |-> timestamp])

\* Variant: the cache keeps the newest entry only.
cache_data_KeepsNewestOnly(data_cache_, key, data, metadata, timestamp) ==
    Put(<<>>, key, [data |-> data, metadata |-> MetadataOrEmpty(metadata),
                    timestamp |-> timestamp])

\* DromaState.cache_data: the cache after the call.
cache_data(data_cache_, key, data, metadata, timestamp) ==
    Put(data_cache_, key, [data |-> data, metadata |-> MetadataOrEmpty(metadata),
                           timestamp |-> timestamp])

\* DromaState.get_cached_data: <<data>>, or <<>> for None.
get_cached_data(data_cache_, key) ==
    IF key \in DOMAIN data_cache_ THEN <<data_cache_[key].data>> ELSE <<>>

CacheData(key, data, metadata) ==
    /\ data_cache' = cache_data(data_cache, key, data, metadata, now)
    /\ last_put' = Put(last_put, key,
                       [data |-> data,
                        metadata |-> IF metadata = "None" THEN "{}" ELSE metadata,
                        replaced |-> key \in DOMAIN last_put])
    /\ ev' = [op |-> "cache_data", key |-> key, result |-> <<>>]
    /\ UNCHANGED <<registry, r, renv, task, now, kd, exports>>

GetCachedData(key) ==
    /\ ev' = [op |-> "get_cached_data", key |-> key,
              result |-> get_cached_data(data_cache, key)]
    /\ UNCHANGED <<registry, r, renv, task, cache, kd, exports>>

\* Time passes between two calls.
Tick ==
    /\ now < MaxClock
    /\ now' = now + 1
    /\ UNCHANGED <<registry, r, renv, task, ev, data_cache, last_put, kd, exports>>

CacheNext ==
    \/ \E key \in CacheKeys, data \in Frames, metadata \in MetadataArgs :
          CacheData(key, data, metadata)
    \/ \E key \in CacheKeys : GetCachedData(key)
    \/ Tick

CacheSpec == Init /\ [][CacheNext]_vars

-----------------------------------------------------------------------------
(* Cache keys: the f-strings of the four data-loading tools and            *)
(* util.generate_cache_key, applied to two requests drawn at the start.    *)

RECURSIVE ToStr(_)
\* The Python string of a sequence of characters.
ToStr(s) == IF s = <<>> THEN "" ELSE Head(s) \o ToStr(Tail(s))

\* str.isalnum() on the characters that occur in the ids and types below.
IsAlnum(c) == c \in {"A", "B", "N", "R", "c", "m", "n", "v"}

\* "".join(c for c in s if c.isalnum() or c in ['_', '-'])
Clean(s) == SelectSeq(s, LAMBDA c : IsAlnum(c) \/ c \in {"_", "-"})

\* util.generate_cache_key
generate_cache_key(prefix, dataset_id, data_type) ==
    prefix \o "_" \o ToStr(Clean(dataset_id)) \o "_" \o ToStr(Clean(data_type))

\* f"mol_profiles_{request.dataset_name}_{request.molecular_type.value}"
MolProfilesKey(dataset_name, molecular_type) ==
    "mol_profiles_" \o ToStr(dataset_name) \o "_" \o ToStr(molecular_type)

\* f"treatment_response_{request.dataset_name}"
TreatmentResponseKey(dataset_name) == "treatment_response_" \o ToStr(dataset_name)

\* f"multi_mol_profiles_{request.multidromaset_id}_{request.molecular_type.value}"
MultiMolProfilesKey(multidromaset_id, molecular_type) ==
    "multi_mol_profiles_" \o ToStr(multidromaset_id) \o "_" \o ToStr(molecular_type)

\* f"multi_treatment_response_{request.multidromaset_id}"
MultiTreatmentResponseKey(multidromaset_id) ==
    "multi_treatment_response_" \o ToStr(multidromaset_id)

\* Dataset ids in key requests: "A", "A,B", "AB".
KeyIds == { <<"A">>, <<"A", ",", "B">>, <<"A", "B">> }
\* MolecularType values: "mRNA", "cnv".
MolecularTypes == { <<"m", "R", "N", "A">>, <<"c", "n", "v">> }
\* Prefixes passed to generate_cache_key.
Prefixes == {"mol_profiles", "treatment_response"}

\* A request for a key: the builder, and the operation, dataset id and
\* discriminator it is given (no discriminator: the empty sequence).
KeyRequest(by, operation, dataset_id, disc) ==
    [by |-> by, operation |-> operation, id |-> dataset_id, disc |-> disc]

KeyRequests ==
    {KeyRequest("load_molecular_profiles_normalized", "mol_profiles", i, m) :
        i \in KeyIds, m \in MolecularTypes}
    \cup {KeyRequest("load_treatment_response_normalized", "treatment_response", i, <<>>) :
        i \in KeyIds}
    \cup {KeyRequest("load_multi_project_molecular_profiles_normalized",
                     "multi_mol_profiles", i, m) : i \in KeyIds, m \in MolecularTypes}
    \cup {KeyRequest("load_multi_project_treatment_response_normalized",
                     "multi_treatment_response", i, <<>>) : i \in KeyIds}
    \cup UNION {{KeyRequest("generate_cache_key", p, i, m) :
                    i \in KeyIds, m \in MolecularTypes} : p \in Prefixes}

\* The request whose key is derived next.
NextRequest == kd.reqs[Len(kd.keys) + 1]

\* The builder derives the key of the next request, if the request is its own.
Derive(by, key) ==
    /\ Len(kd.keys) < Len(kd.reqs)
    /\ NextRequest.by = by
    /\ kd' = [kd EXCEPT !.keys = Append(@, key)]
    /\ UNCHANGED <<registry, r, renv, task, ev, cache, exports>>

KeyOfMolProfiles ==
    Derive("load_molecular_profiles_normalized",
           MolProfilesKey(NextRequest.id, NextRequest.disc))
KeyOfTreatmentResponse ==
    Derive("load_treatment_response_normalized", TreatmentResponseKey(NextRequest.id))
KeyOfMultiMolProfiles ==
    Derive("load_multi_project_molecular_profiles_normalized",
           MultiMolProfilesKey(NextRequest.id, NextRequest.disc))
KeyOfMultiTreatmentResponse ==
    Derive("load_multi_project_treatment_response_normalized",
           MultiTreatmentResponseKey(NextRequest.id))
KeyOfGenerateCacheKey ==
    Derive("generate_cache_key",
           generate_cache_key(NextRequest.operation, NextRequest.id, NextRequest.disc))

KeyInit ==
    /\ InitState
    /\ kd \in {[reqs |-> <<q1, q2>>, keys |-> <<>>] : q1, q2 \in KeyRequests}

KeyNext ==
    \/ KeyOfMolProfiles
    \/ KeyOfTreatmentResponse
    \/ KeyOfMultiMolProfiles
    \/ KeyOfMultiTreatmentResponse
    \/ KeyOfGenerateCacheKey

KeySpec == KeyInit /\ [][KeyNext]_vars

-----------------------------------------------------------------------------
(* Normalization checks: the check_zscore_normalization tool and           *)
(* DataValidator.check_normalization_quality, applied to a cache that      *)
(* holds one entry drawn at the start.                                     *)
(*                                                                         *)
(* A table value is a whole number of hundredths, <<v>>, or NaN, <<>>.     *)
(* Statistics are exact: with n values of sum S and sum of squares Q,      *)
(* mean = S / (100 n) and std^2 = (n Q - S^2) / (10000 n^2), the std of    *)
(* numpy (ddof = 0).  Floating-point rounding is not modelled.             *)

\* What a cache entry holds as 'data': a pandas DataFrame with its rows, or
\* the dict that _convert_r_to_python returns for any other R object.
DataFrame(rows) == [type |-> "DataFrame", values |-> rows]
OpaqueDict == [type |-> "dict", values |-> <<>>]

RECURSIVE Flatten(_)
\* df.values.flatten()
Flatten(rows) == IF rows = <<>> THEN <<>> ELSE Head(rows) \o Flatten(Tail(rows))

\* values[~pd.isna(values)]
DropNaN(values) == SelectSeq(values, LAMBDA c : c # <<>>)
HasNaN(values) == \E i \in 1..Len(values) : values[i] = <<>>

RECURSIVE Sum(_)
Sum(values) == IF values = <<>> THEN 0 ELSE Head(values)[1] + Sum(Tail(values))
RECURSIVE SumSq(_)
SumSq(values) ==
    IF values = <<>> THEN 0 ELSE Head(values)[1] * Head(values)[1] + SumSq(Tail(values))

Abs(x) == IF x < 0 THEN -x ELSE x
\* n^2 * 10000 * std^2 of values without NaN.
ScaledVar(values) == Len(values) * SumSq(values) - Sum(values) * Sum(values)

\* abs(mean) < 0.1
AbsMeanBelowTenth(values) == Abs(Sum(values)) < 10 * Len(values)
\* abs(std - 1.0) < 0.1, that is 0.9 < std < 1.1
StdWithinTenthOfOne(values) ==
    /\ 8100 * Len(values) * Len(values) < ScaledVar(values)
    /\ ScaledVar(values) < 12100 * Len(values) * Len(values)
\* 0.8 < std < 1.2
StdBetween(values) ==
    /\ 6400 * Len(values) * Len(values) < ScaledVar(values)
    /\ ScaledVar(values) < 14400 * Len(values) * Len(values)

\* The validation_info of check_zscore_normalization for the entry's data.
\* A DataFrame with no value makes values.min() raise; a NaN among the
\* values makes mean and std NaN, and every comparison with NaN is False.
ValidationInfo(data) ==
    LET values == Flatten(data.values)
    IN  IF data.type # "DataFrame"
        THEN [outcome |-> "empty", mean_close_to_zero |-> FALSE,
              std_close_to_one |-> FALSE]
        ELSE IF values = <<>>
        THEN [outcome |-> "raised", mean_close_to_zero |-> FALSE,
              std_close_to_one |-> FALSE]
        ELSE IF HasNaN(values)
        THEN [outcome |-> "stats", mean_close_to_zero |-> FALSE,
              std_close_to_one |-> FALSE]
        ELSE [outcome |-> "stats", mean_close_to_zero |-> AbsMeanBelowTenth(values),
              std_close_to_one |-> StdWithinTenthOfOne(values)]

\* DataValidator.check_normalization_quality on a DataFrame.
check_normalization_quality(df) ==
    LET values == DropNaN(Flatten(df.values))
    IN  IF Len(values) = 0
        THEN [outcome |-> "No valid values found", mean_centered |-> FALSE,
              unit_variance |-> FALSE, is_well_normalized |-> FALSE]
        ELSE [outcome |-> "stats", mean_centered |-> AbsMeanBelowTenth(values),
              unit_variance |-> StdBetween(values),
              is_well_normalized |-> AbsMeanBelowTenth(values) /\ StdBetween(values)]

\* metadata.get('zscore_normalized', False)
ZscoreNormalized(metadata) == metadata = "{'zscore_normalized': True}"

\* "not cached_data": None and an empty container are falsy, a non-empty dict
\* is truthy, and the truth value of a DataFrame raises ValueError.
NotCachedData(cached_data) ==
    IF cached_data = <<>> THEN "True"
    ELSE IF cached_data[1].type = "DataFrame" THEN "ValueError"
    ELSE "False"

\* check_zscore_normalization: what the tool returns, or that it raised.
CheckZscoreTool(data_cache_, cache_key) ==
    LET test == NotCachedData(get_cached_data(data_cache_, cache_key))
        none == [outcome |-> "empty", mean_close_to_zero |-> FALSE,
                 std_close_to_one |-> FALSE]
    IN  IF test = "ValueError"
        THEN [status |-> "raised", message |-> "{str(e)}",
              detail |-> "The truth value of a DataFrame is ambiguous",
              is_normalized |-> FALSE, validation_info |-> none]
        ELSE IF test = "True"
        THEN [status |-> "error", message |-> "No cached data found for key",
              detail |-> "", is_normalized |-> FALSE, validation_info |-> none]
        ELSE LET cached_entry == data_cache_[cache_key]
                 info == ValidationInfo(cached_entry.data)
             IN  IF info.outcome = "raised"
                 THEN [status |-> "error",
                       message |-> "Failed to check normalization status: {str(e)}",
                       detail |-> "zero-size array to reduction operation",
                       is_normalized |-> FALSE, validation_info |-> none]
                 ELSE [status |-> "success", message |-> "", detail |-> "",
                       is_normalized |-> ZscoreNormalized(cached_entry.metadata),
                       validation_info |-> info]

\* The values of a table: NaN, -1.00, -0.85, 0.85, 1.00, 5.30.
AuditCells == { <<>>, <<-100>>, <<-85>>, <<85>>, <<100>>, <<530>> }
\* Tables of no row, and of one row of one or two values.
AuditTables ==
    {DataFrame(<<>>)}
    \cup {DataFrame(<< <<c>> >>) : c \in AuditCells}
    \cup {DataFrame(<< <<c, d>> >>) : c, d \in AuditCells}
\* The metadata of an entry: without the flag, with it set, with it cleared.
AuditMetadata == {"{}", "{'zscore_normalized': True}", "{'zscore_normalized': False}"}
AuditKey == "k1"

\* Variant: the audit writes its finding back into the entry's metadata.
CheckZscore_WritesFlag(cache_key) ==
    /\ ev' = [op |-> "check_zscore_normalization", key |-> cache_key]
             @@ CheckZscoreTool(data_cache, cache_key)
    /\ data_cache' = IF cache_key \in DOMAIN data_cache
                     THEN [data_cache EXCEPT ![cache_key].metadata =
                                                "{'zscore_normalized': False}"]
                     ELSE data_cache
    /\ UNCHANGED <<registry, r, renv, task, now, last_put, kd, exports>>

\* check_zscore_normalization
CheckZscore(cache_key) ==
    /\ ev' = [op |-> "check_zscore_normalization", key |-> cache_key]
             @@ CheckZscoreTool(data_cache, cache_key)
    /\ UNCHANGED <<registry, r, renv, task, cache, kd, exports>>

\* DataValidator.check_normalization_quality on the table of an entry.
CheckNormalizationQuality(cache_key) ==
    /\ cache_key \in DOMAIN data_cache
    /\ data_cache[cache_key].data.type = "DataFrame"
    /\ ev' = [op |-> "check_normalization_quality", key |-> cache_key]
             @@ check_normalization_quality(data_cache[cache_key].data)
    /\ UNCHANGED <<registry, r, renv, task, cache, kd, exports>>

\* The cache is empty or holds one entry under AuditKey.
AuditInit ==
    /\ InitRegistry
    /\ InitExports
    /\ now = 0
    /\ last_put = <<>>
    /\ kd = [reqs |-> <<>>, keys |-> <<>>]
    /\ data_cache \in
          {<<>>} \cup
          {cache_data(<<>>, AuditKey, data, metadata, 0) :
              data \in AuditTables \cup {OpaqueDict}, metadata \in AuditMetadata}

AuditNext ==
    \/ CheckZscore(AuditKey)
    \/ CheckNormalizationQuality(AuditKey)

AuditSpec == AuditInit /\ [][AuditNext]_vars

-----------------------------------------------------------------------------
(* data_loading.py: the four data-loading tools, and the tools and methods *)
(* that only read, next to load_dataset, set_active_dataset and            *)
(* unload_dataset for one DromaSet and one MultiDromaSet.                  *)

\* The attribute a single-dataset loader reads first, request.dataset_name,
\* is no field of its request model (the field is dromaset_id), so the read
\* raises AttributeError, outside the tool's try.
SingleLoaderTool(s, dromaset_id) ==
    [status |-> "raised", message |-> "{str(e)}",
     detail |-> "AttributeError: dataset_name", s |-> s, calls |-> <<>>]

\* A multi-project loader up to "await ctx.info": the R object name it
\* resolved, or None (the tool then returns its "not found" error).
MultiLoaderResolve(s, multidromaset_id) == get_multidataset(s, multidromaset_id)

\* The metadata a multi-project loader stores with its result.
LoaderMetadata(zscore) ==
    IF zscore THEN "{'zscore_normalized': True}" ELSE "{'zscore_normalized': False}"

\* The R variable every loader command assigns its value to.
ResultName == <<"result">>

\* The classes of R object a loader command may leave in "result".
RClasses == {"matrix", "list"}

\* The value of a loader's R function: its class, the function and the R
\* object the function was called on.
RResult(fn, name, rclass) == [cls |-> rclass, of |-> fn, on |-> name]

\* The table an R matrix converts to: one cell, which tells the molecular
\* profiles from the treatment responses.
TableOf(r_result) ==
    IF r_result.of = "loadMultiProjectMolecularProfilesNormalized"
    THEN DataFrame(<< << <<0>> >> >>) ELSE DataFrame(<< << <<100>> >> >>)

\* _convert_r_to_python: a DataFrame for an R matrix or data.frame, a dict
\* for any other R object (and a dict again when the conversion raises).
ConvertRToPython(r_result) ==
    IF r_result.cls \in {"matrix", "data.frame"} THEN TableOf(r_result)
    ELSE OpaqueDict

\* Where R raises in a loader: nowhere, at the loader command, or at the
\* read of "result" that follows it.
RRaises == {"none", "command", "result"}

\* A loader that ends in its except branch, after the calls it made.
LoaderFailed(data_cache_, env, detail, calls) ==
    [status |-> "error", message |-> "Failed to load: {str(e)}", detail |-> detail,
     cache |-> data_cache_, env |-> env, calls |-> calls]

\* A loader that converts r_result, caches it and returns.
LoaderLoaded(data_cache_, env, cache_key, r_result, zscore, timestamp, calls) ==
    [status |-> "success", message |-> "Loaded", detail |-> "",
     cache |-> cache_data(data_cache_, cache_key, ConvertRToPython(r_result),
                          LoaderMetadata(zscore), timestamp),
     env |-> env, calls |-> calls]

\* Variant: a failed command is cached as an error value under the key.
MultiLoaderTool_CachesFailure(data_cache_, env, r_attached, fn, name, cache_key, zscore, r_raises, rclass, timestamp) ==
    IF r_attached /\ r_raises = "none" /\ name \in DOMAIN env
    THEN LoaderLoaded(data_cache_, RAssign(env, ResultName, RResult(fn, name, rclass)),
                      cache_key, RResult(fn, name, rclass), zscore, timestamp,
                      <<RCall(fn, name, TRUE), RCall("result", name, TRUE)>>)
    ELSE LoaderFailed(cache_data(data_cache_, cache_key, OpaqueDict,
                                 LoaderMetadata(zscore), timestamp),
                      env, RErrorText,
                      IF r_attached THEN <<RCall(fn, name, FALSE)>> ELSE <<>>)

\* Variant: a result that is no table is an error and is not cached.
MultiLoaderTool_RejectsOpaque(data_cache_, env, r_attached, fn, name, cache_key, zscore, r_raises, rclass, timestamp) ==
    LET assigned == RAssign(env, ResultName, RResult(fn, name, rclass))
        both == <<RCall(fn, name, TRUE), RCall("result", name, TRUE)>>
    IN  IF ~r_attached
        THEN LoaderFailed(data_cache_, env, "'NoneType' object is not callable", <<>>)
        ELSE IF r_raises = "command" \/ name \notin DOMAIN env
        THEN LoaderFailed(data_cache_, env, RErrorText, <<RCall(fn, name, FALSE)>>)
        ELSE IF r_raises = "result"
        THEN LoaderFailed(data_cache_, assigned, RErrorText,
                          <<RCall(fn, name, TRUE), RCall("result", name, FALSE)>>)
        ELSE IF rclass \notin {"matrix", "data.frame"}
        THEN LoaderFailed(data_cache_, assigned, "not a table", both)
        ELSE LoaderLoaded(data_cache_, assigned, cache_key, assigned[ResultName],
                          zscore, timestamp, both)

\* Variant: the read of "result" returns the value that another command left
\* there, when there is one, as it would if the two calls were not made in a
\* row.
MultiLoaderTool_ReadsStaleResult(data_cache_, env, r_attached, fn, name, cache_key, zscore, r_raises, rclass, timestamp) ==
    LET assigned == RAssign(env, ResultName, RResult(fn, name, rclass))
        read == IF ResultName \in DOMAIN env THEN env[ResultName]
                ELSE assigned[ResultName]
    IN  IF ~r_attached
        THEN LoaderFailed(data_cache_, env, "'NoneType' object is not callable", <<>>)
        ELSE IF r_raises = "command" \/ name \notin DOMAIN env
        THEN LoaderFailed(data_cache_, env, RErrorText, <<RCall(fn, name, FALSE)>>)
        ELSE IF r_raises = "result"
        THEN LoaderFailed(data_cache_, assigned, RErrorText,
                          <<RCall(fn, name, TRUE), RCall("result", name, FALSE)>>)
        ELSE LoaderLoaded(data_cache_, assigned, cache_key, read,
                          zscore, timestamp,
                          <<RCall(fn, name, TRUE), RCall("result", name, TRUE)>>)

\* A multi-project loader from the await on.  With no R attached the call of
\* droma_state.r raises TypeError before anything is sent.  The command
\* names the resolved R object and assigns to "result"; R raises when it
\* holds no such object or fails otherwise (r_raises), and then nothing
\* follows.  The value converted and cached is what the read of "result"
\* returns.
MultiLoaderTool(data_cache_, env, r_attached, fn, name, cache_key, zscore, r_raises, rclass, timestamp) ==
    LET assigned == RAssign(env, ResultName, RResult(fn, name, rclass))
    IN  IF ~r_attached
        THEN LoaderFailed(data_cache_, env, "'NoneType' object is not callable", <<>>)
        ELSE IF r_raises = "command" \/ name \notin DOMAIN env
        THEN LoaderFailed(data_cache_, env, RErrorText, <<RCall(fn, name, FALSE)>>)
        ELSE IF r_raises = "result"
        THEN LoaderFailed(data_cache_, assigned, RErrorText,
                          <<RCall(fn, name, TRUE), RCall("result", name, FALSE)>>)
        ELSE LoaderLoaded(data_cache_, assigned, cache_key, assigned[ResultName],
                          zscore, timestamp,
                          <<RCall(fn, name, TRUE), RCall("result", name, TRUE)>>)

\* get_cached_data_info: for one key, or the summary for None and "".
CachedDataInfoTool(data_cache_, cache_key) ==
    IF cache_key \notin {"None", ""}
    THEN IF cache_key \notin DOMAIN data_cache_
         THEN [status |-> "error", message |-> "No cached data found for key",
               info |-> <<>>]
         ELSE [status |-> "success", message |-> "",
               info |-> << <<cache_key, data_cache_[cache_key].timestamp,
                             data_cache_[cache_key].metadata,
                             data_cache_[cache_key].data.type>> >>]
    ELSE [status |-> "success", message |-> "",
          info |-> {<<k, data_cache_[k].timestamp, data_cache_[k].metadata,
                      data_cache_[k].data.type>> : k \in DOMAIN data_cache_}]

\* export_cached_data: None is falsy, the truth value of a DataFrame raises
\* (outside the try, so save_analysis_result is never reached), and any
\* other value is refused.
ExportTool(data_cache_, cache_key) ==
    LET test == NotCachedData(get_cached_data(data_cache_, cache_key))
    IN  IF test = "ValueError"
        THEN [status |-> "raised", message |-> "{str(e)}",
              detail |-> "The truth value of a DataFrame is ambiguous"]
        ELSE IF test = "True"
        THEN [status |-> "error", message |-> "No cached data found for key",
              detail |-> ""]
        ELSE [status |-> "error",
              message |-> "Only pandas DataFrame can be exported to structured files",
              detail |-> ""]

\* list_loaded_datasets
ListTool(s, include_details) ==
    [status |-> "success",
     datasets |-> DOMAIN s.ds, multidatasets |-> DOMAIN s.mds,
     active_dataset |-> s.ad, active_multidataset |-> s.amd,
     total_loaded |-> Cardinality(DOMAIN s.ds) + Cardinality(DOMAIN s.mds),
     dataset_details |->
        IF include_details
        THEN [id \in (DOMAIN s.ds) \cup (DOMAIN s.mds) |->
                 IF id \in DOMAIN s.mds
                 THEN <<"MultiDromaSet", s.mds[id], id = s.amd>>
                 ELSE <<"DromaSet", s.ds[id], id = s.ad>>]
        ELSE <<>>]

\* The multi-project loaders and the key each builds.
MultiLoaders == {"load_multi_project_molecular_profiles_normalized",
                 "load_multi_project_treatment_response_normalized"}
SingleLoaders == {"load_molecular_profiles_normalized",
                  "load_treatment_response_normalized"}
mRNA == <<"m", "R", "N", "A">>
LoaderKey(fn, multidromaset_id) ==
    IF fn = "load_multi_project_molecular_profiles_normalized"
    THEN MultiMolProfilesKey(multidromaset_id, mRNA)
    ELSE MultiTreatmentResponseKey(multidromaset_id)
\* The R function a loader calls.
LoaderFunction(fn) ==
    IF fn = "load_multi_project_molecular_profiles_normalized"
    THEN "loadMultiProjectMolecularProfilesNormalized"
    ELSE "loadMultiProjectTreatmentResponseNormalized"

\* Ids a loader request may name: none ("", the active MultiDromaSet is
\* meant) and "A", which is never the id of a MultiDromaSet.
LoaderIds == { <<>>, <<"A">> }
\* The datasets load_dataset is asked for: DromaSet "A", MultiDromaSet "A,B".
LoadableKind(dataset_id) == IF dataset_id = <<"A">> THEN "DromaSet" ELSE "MultiDromaSet"
\* The zscore field of a loader request: its default.
ZscoreArgs == {TRUE}
\* Keys the reading tools are asked for.
DataKeys == {LoaderKey(fn, <<>>) : fn \in MultiLoaders}

\* load_molecular_profiles_normalized, load_treatment_response_normalized
SingleLoader(fn, dromaset_id) ==
    /\ LET res == SingleLoaderTool(Cur, dromaset_id)
       IN  /\ Becomes(res.s)
           /\ ev' = [op |-> fn, id |-> dromaset_id, status |-> res.status,
                     message |-> res.message, detail |-> res.detail,
                     calls |-> res.calls]
    /\ UNCHANGED <<r, task, cache, kd, exports>>

\* A multi-project loader up to "await ctx.info(...)".
MultiLoaderBegin(t, fn, multidromaset_id, zscore) ==
    /\ task[t].pc = "idle"
    /\ LET name == MultiLoaderResolve(Cur, multidromaset_id)
       IN  IF name = None
           THEN /\ ev' = [op |-> fn, id |-> multidromaset_id, status |-> "error",
                          message |-> "MultiDataset not found. Please load it first.",
                          detail |-> "", calls |-> <<>>]
                /\ UNCHANGED task
           ELSE /\ ev' = [op |-> fn, id |-> multidromaset_id, status |-> "awaiting",
                          message |-> "Executing R command", detail |-> "",
                          calls |-> <<>>]
                /\ task' = [task EXCEPT ![t] =
                       [pc |-> fn, id |-> multidromaset_id, name |-> name,
                        zscore |-> zscore]]
    /\ UNCHANGED <<registry, r, renv, cache, kd, exports>>

\* A multi-project loader from the await on.
MultiLoaderResume(t, r_raises, rclass) ==
    /\ task[t].pc \in MultiLoaders
    /\ LET q == task[t]
           res == MultiLoaderTool(data_cache, renv, r, LoaderFunction(q.pc), q.name,
                                  LoaderKey(q.pc, q.id), q.zscore, r_raises, rclass, now)
       IN  /\ data_cache' = res.cache
           /\ renv' = res.env
           /\ ev' = [op |-> q.pc, id |-> q.id, status |-> res.status,
                     message |-> res.message, detail |-> res.detail,
                     calls |-> res.calls]
    /\ task' = [task EXCEPT ![t] = Idle]
    /\ UNCHANGED <<registry, r, now, last_put, kd, exports>>

\* DromaState.get_dataset, DromaState.get_multidataset
ResolveDataset(dataset_id, dataset_type) ==
    /\ ev' = [op |-> "resolve", id |-> dataset_id, kind |-> dataset_type,
              result |-> Resolve(Cur, dataset_id, dataset_type)]
    /\ UNCHANGED <<registry, r, renv, task, cache, kd, exports>>

\* list_loaded_datasets
ListLoaded(include_details) ==
    /\ ev' = [op |-> "list_loaded_datasets", include_details |-> include_details]
             @@ ListTool(Cur, include_details)
    /\ UNCHANGED <<registry, r, renv, task, cache, kd, exports>>

\* get_cached_data_info
GetCachedDataInfo(cache_key) ==
    /\ ev' = [op |-> "get_cached_data_info", key |-> cache_key]
             @@ CachedDataInfoTool(data_cache, cache_key)
    /\ UNCHANGED <<registry, r, renv, task, cache, kd, exports>>

\* export_cached_data
ExportCachedData(cache_key) ==
    /\ ev' = [op |-> "export_cached_data", key |-> cache_key]
             @@ ExportTool(data_cache, cache_key)
    /\ UNCHANGED <<registry, r, renv, task, cache, kd, exports>>

DataNext ==
    \/ \E t \in Tasks, id \in DatasetIds, p \in {"/db", "/missing"}, sa \in BOOLEAN :
          LoadBegin(t, id, LoadableKind(id), p, PathNone, sa)
    \/ \E t \in Tasks, r_ok \in BOOLEAN : LoadResume(t, r_ok)
    \/ \E id \in DatasetIds : SetActive(id, LoadableKind(id))
    \/ \E id \in DatasetIds, r_ok \in BOOLEAN : Unload(id, LoadableKind(id), r_ok)
    \/ \E fn \in SingleLoaders, id \in LoaderIds : SingleLoader(fn, id)
    \/ \E t \in Tasks, fn \in MultiLoaders, id \in LoaderIds, zscore \in ZscoreArgs :
          MultiLoaderBegin(t, fn, id, zscore)
    \/ \E t \in Tasks, r_raises \in RRaises, rclass \in RClasses :
          MultiLoaderResume(t, r_raises, rclass)
    \/ \E id \in DatasetIds \cup {<<>>}, k \in DatasetTypes : ResolveDataset(id, k)
    \/ \E d \in BOOLEAN : ListLoaded(d)
    \/ \E key \in DataKeys : GetCachedData(key)
    \/ \E key \in DataKeys \cup {"None"} : GetCachedDataInfo(key)
    \/ \E key \in DataKeys : CheckZscore(key)
    \/ \E key \in DataKeys : ExportCachedData(key)

DataSpec == Init /\ [][DataNext]_vars

\* The tools of dataset_management.py together, for every id and kind.
ListNext ==
    \/ Next
    \/ \E d \in BOOLEAN : ListLoaded(d)

ListSpec == Init /\ [][ListNext]_vars

-----------------------------------------------------------------------------
(* util.py: save_analysis_result and cleanup_temp_files on the export      *)
(* registry and the files of the temporary directory.  A file name is the  *)
(* sequence of its parts, an extension being one part: "a.csv" is          *)
(* <<"a", ".csv">>.                                                        *)

\* The format argument: one that save_analysis_result writes, one it does not.
FormatArgs == {"csv", "xml"}
\* f'.{format}'
Ext(format) == "." \o format
\* The name argument: None, "a".
NameArgs == {None, <<"a">>}
\* str(n) for the sizes the registry takes.
NumStr(n) == <<"0", "1", "2", "3", "4">>[n + 1]
\* The registry holds at most this many exports when a save starts.
MaxExports == 2
\* max_age_hours: 0, 1, and float('inf').
Infinity == <<>>
MaxAges == {<<0>>, <<1>>, Infinity}
\* One step of the clock is an hour.
SecondsPerHour == 3600

\* name.endswith(ext)
EndsWith(name, ext) == name # <<>> /\ name[Len(name)] = ext
\* name.replace(ext, '')
Without(name, ext) == SelectSeq(name, LAMBDA part : part # ext)

\* f"droma_analysis_{len(EXPORTS)}.{format}"
AutoName(EXPORTS_, format) ==
    <<"droma_analysis_" \o NumStr(Cardinality(DOMAIN EXPORTS_)), Ext(format)>>

\* The name save_analysis_result settles on.
SaveName(EXPORTS_, name, format) ==
    LET named == IF name = None THEN AutoName(EXPORTS_, format) ELSE name
    IN  IF EndsWith(named, Ext(format)) THEN named ELSE Append(named, Ext(format))

\* save_analysis_result: the registry and the files after the call, and the
\* export id it returns; ValueError for a format it does not write.
save_analysis_result(EXPORTS_, files_, name, format, timestamp) ==
    IF format \notin {"csv", "excel", "json"}
    THEN [status |-> "ValueError", export_id |-> None,
          EXPORTS |-> EXPORTS_, files |-> files_]
    ELSE LET filepath == SaveName(EXPORTS_, name, format)
             export_id == Without(filepath, Ext(format))
         IN  [status |-> "returned", export_id |-> export_id,
              EXPORTS |-> Put(EXPORTS_, export_id, filepath),
              files |-> Put(files_, filepath, timestamp)]

\* file_age > max_age_seconds
OlderThan(files_, filepath, max_age_hours, timestamp) ==
    /\ max_age_hours # Infinity
    /\ (timestamp - files_[filepath]) * SecondsPerHour
          > max_age_hours[1] * SecondsPerHour

\* The ids one loop of cleanup_temp_files deletes from a registry: those whose
\* file is older than the age allowed, and those whose file is gone.
Swept(registry_, files_, max_age_hours, timestamp) ==
    {id \in DOMAIN registry_ :
        IF registry_[id] \in DOMAIN files_
        THEN OlderThan(files_, registry_[id], max_age_hours, timestamp)
        ELSE TRUE}

\* cleanup_temp_files: the registries and the files after the call, and the
\* summary it returns.
cleanup_temp_files(EXPORTS_, FIGURES_, files_, max_age_hours, timestamp) ==
    LET cleaned_exports == Swept(EXPORTS_, files_, max_age_hours, timestamp)
        files_1 == [f \in (DOMAIN files_) \ {EXPORTS_[id] : id \in cleaned_exports}
                       |-> files_[f]]
        cleaned_figures == Swept(FIGURES_, files_1, max_age_hours, timestamp)
        files_2 == [f \in (DOMAIN files_1) \ {FIGURES_[id] : id \in cleaned_figures}
                       |-> files_1[f]]
        E == [id \in (DOMAIN EXPORTS_) \ cleaned_exports |-> EXPORTS_[id]]
        F == [id \in (DOMAIN FIGURES_) \ cleaned_figures |-> FIGURES_[id]]
    IN  [cleaned_exports |-> Cardinality(cleaned_exports),
         cleaned_figures |-> Cardinality(cleaned_figures),
         remaining_exports |-> Cardinality(DOMAIN E),
         remaining_figures |-> Cardinality(DOMAIN F),
         EXPORTS |-> E, FIGURES |-> F, files |-> files_2]

\* save_analysis_result
SaveAnalysisResult(name, format) ==
    /\ Cardinality(DOMAIN EXPORTS) < MaxExports
    /\ LET res == save_analysis_result(EXPORTS, files, name, format, now)
       IN  /\ EXPORTS' = res.EXPORTS
           /\ files' = res.files
           /\ ev' = [op |-> "save_analysis_result", name |-> name, format |-> format,
                     status |-> res.status, export_id |-> res.export_id]
    /\ UNCHANGED <<registry, r, renv, task, cache, kd, FIGURES>>

\* cleanup_temp_files
CleanupTempFiles(max_age_hours) ==
    /\ LET res == cleanup_temp_files(EXPORTS, FIGURES, files, max_age_hours, now)
       IN  /\ EXPORTS' = res.EXPORTS
           /\ FIGURES' = res.FIGURES
           /\ files' = res.files
           /\ ev' = [op |-> "cleanup_temp_files", max_age_hours |-> max_age_hours,
                     cleaned_exports |-> res.cleaned_exports,
                     cleaned_figures |-> res.cleaned_figures,
                     remaining_exports |-> res.remaining_exports,
                     remaining_figures |-> res.remaining_figures]
    /\ UNCHANGED <<registry, r, renv, task, cache, kd>>

\* Something other than the server deletes a file of the temporary directory.
FileRemovedOutside(filepath) ==
    /\ filepath \in DOMAIN files
    /\ files' = [f \in (DOMAIN files) \ {filepath} |-> files[f]]
    /\ UNCHANGED <<registry, r, renv, task, ev, cache, kd, EXPORTS, FIGURES>>

\* The key and the table of the one entry the cache is given here.
ExportKey == "multi_treatment_response_"

ExportNext ==
    \/ \E name \in NameArgs, format \in FormatArgs : SaveAnalysisResult(name, format)
    \/ \E max_age_hours \in MaxAges : CleanupTempFiles(max_age_hours)
    \/ \E filepath \in DOMAIN files : FileRemovedOutside(filepath)
    \/ CacheData(ExportKey, <<<<0>>>>, "None")
    \/ Tick

ExportSpec == Init /\ [][ExportNext]_vars

-----------------------------------------------------------------------------
(* Properties of the dataset registry *)

\* C1: in every reachable state, at every interleaving of load, set_active
\* and unload, each active pointer is unset or the id of a handle of its map.
C1_ActivePointersRegistered ==
    /\ active_dataset = None \/ active_dataset \in DOMAIN datasets
    /\ active_multidataset = None \/ active_multidataset \in DOMAIN multidatasets

\* C1's case: while a load is suspended at its await, an unload has removed
\* one of two MultiDromaSet handles and left the kind's pointer unset; the
\* other kind's pointer names a handle.
C1_Witness ==
    /\ ev.op = "unload_dataset" /\ ev.status = "success" /\ ev.kind = "MultiDromaSet"
    /\ \E t \in Tasks : task[t].pc = "load"
    /\ multidatasets # <<>> /\ active_multidataset = None
    /\ active_dataset # None

OtherKind(dataset_type) ==
    IF dataset_type = "DromaSet" THEN "MultiDromaSet" ELSE "DromaSet"

\* The step is the handler named, called with the request that ev' echoes.
IsUnload == ev'.op = "unload_dataset" /\ \E r_ok \in BOOLEAN : Unload(ev'.id, ev'.kind, r_ok)
IsSetActive == ev'.op = "set_active_dataset" /\ SetActive(ev'.id, ev'.kind)
IsLoadResume(t) ==
    /\ ev'.op = "load_dataset" /\ task[t].pc = "load"
    /\ \E r_ok \in BOOLEAN : LoadResume(t, r_ok)

\* C2: a successful unload_dataset(id, kind) unsets the kind's active pointer
\* when it named id and leaves it untouched otherwise; after unloading a
\* handle that was not the active one, resolving without an id gives the
\* same handle as before.  The other kind's pointer is not touched.
C2_UnloadClearsOnlyItsOwnPointer ==
    [][(IsUnload /\ ev'.id \in DOMAIN Handles(Cur, ev'.kind)) =>
          LET id == ev'.id
              k == ev'.kind
          IN  /\ ev'.status = "success"
              /\ id \notin DOMAIN Handles(Cur', k)
              /\ Active(Cur', k) = IF Active(Cur, k) = id THEN None ELSE Active(Cur, k)
              /\ Active(Cur, k) # id => Resolve(Cur', None, k) = Resolve(Cur, None, k)
              /\ Active(Cur', OtherKind(k)) = Active(Cur, OtherKind(k))]_vars

\* C2's case: a handle that was not the active one has been unloaded and the
\* pointer still names the other handle of that kind.
C2_Witness ==
    /\ ev.op = "unload_dataset" /\ ev.status = "success"
    /\ Active(Cur, ev.kind) \notin {None, ev.id}
    /\ Resolve(Cur, None, ev.kind) # None

\* C3: set_active_dataset(id, kind) returns an error and changes nothing when
\* id is not registered under kind (also when it is registered under the
\* other kind only); when it is registered under kind the call succeeds and
\* the kind's active pointer is id, nothing else changed.
C3_SetActiveNeedsRegisteredId ==
    [][IsSetActive =>
          LET id == ev'.id
              k == ev'.kind
          IN  IF id \in DOMAIN Handles(Cur, k)
              THEN /\ ev'.status = "success"
                   /\ Active(Cur', k) = id
                   /\ Active(Cur', OtherKind(k)) = Active(Cur, OtherKind(k))
                   /\ UNCHANGED <<datasets, multidatasets, renv>>
              ELSE /\ ev'.status = "error"
                   /\ UNCHANGED <<registry, renv>>]_vars

\* C3's case: set_active_dataset has failed for an id that is registered
\* under the other kind only, and the kind's pointer names what it named.
C3_Witness ==
    /\ ev.op = "set_active_dataset" /\ ev.status = "error"
    /\ ev.id \in DOMAIN Handles(Cur, OtherKind(ev.kind))
    /\ ev.id \notin DOMAIN Handles(Cur, ev.kind)
    /\ Active(Cur, ev.kind) # None

\* C4: right after load_dataset(id, kind) has succeeded, resolving (id, kind)
\* gives the R object name that the create command assigned to, and R holds
\* under that name the object created for id and kind.
C4_ResolveGivesCreatedObject ==
    (ev.op = "load_dataset" /\ ev.status = "success") =>
        LET name == Resolve(Cur, ev.id, ev.kind)
        IN  /\ name # None
            /\ ev.calls = <<RCall("create", name, TRUE)>>
            /\ name \in DOMAIN renv
            /\ renv[name] = RObject(ev.id, ev.kind)

\* C4's case: a MultiDromaSet with a comma in its id has been loaded.
C4_Witness ==
    /\ ev.op = "load_dataset" /\ ev.status = "success"
    /\ ev.kind = "MultiDromaSet"
    /\ \E i \in 1..Len(ev.id) : ev.id[i] = ","

\* C5: a successful load_dataset(id, kind) sets the kind's active pointer to
\* id exactly when set_active was requested, and resolving without an id
\* then gives the handle just loaded; without set_active both pointers are
\* what they were.
C5_LoadSetsActiveOnRequest ==
    [][\A t \in Tasks :
         (IsLoadResume(t) /\ ev'.status = "success") =>
            IF task[t].set_active
            THEN /\ Active(Cur', task[t].kind) = task[t].id
                 /\ Resolve(Cur', None, task[t].kind) # None
                 /\ Resolve(Cur', None, task[t].kind)
                       = Handles(Cur', task[t].kind)[task[t].id]
            ELSE UNCHANGED <<active_dataset, active_multidataset>>]_vars

\* C5's case: a load without set_active has succeeded while the kind's
\* pointer names another handle.
C5_Witness ==
    /\ ev.op = "load_dataset" /\ ev.status = "success" /\ ~ev.set_active
    /\ Active(Cur, ev.kind) \notin {None, ev.id}

\* C6: unload_dataset of an id that is not registered under the kind returns
\* a warning, makes no call of R and changes neither the registry nor the R
\* environment; an unload_dataset that follows a successful one of the same
\* id and kind is such a call.
C6_UnloadOfUnregisteredId ==
    [][IsUnload =>
          /\ ev'.id \notin DOMAIN Handles(Cur, ev'.kind) =>
                /\ ev'.status = "warning"
                /\ ev'.calls = <<>>
                /\ UNCHANGED <<registry, renv>>
          /\ (/\ ev.op = "unload_dataset" /\ ev.status = "success"
              /\ ev.id = ev'.id /\ ev.kind = ev'.kind) =>
                /\ ev'.status = "warning"
                /\ UNCHANGED <<registry, renv>>]_vars

\* C6's case: with R attached, unload_dataset has returned the warning for
\* an id that is registered under the other kind.
C6_Witness ==
    /\ ev.op = "unload_dataset" /\ ev.status = "warning" /\ r
    /\ ev.id \in DOMAIN Handles(Cur, OtherKind(ev.kind))
    /\ StoredName(ev.id, ev.kind) \in DOMAIN renv

\* C7: when the R command of load_dataset raises, the tool returns an error
\* and the registry is what it was before the call: no handle added, no
\* handle replaced, no pointer moved even with set_active requested.
C7_FailedLoadChangesNothing ==
    [][\A t \in Tasks :
         (/\ IsLoadResume(t)
          /\ Len(ev'.calls) = 1 /\ ~ev'.calls[1].ok) =>
            /\ ev'.status = "error"
            /\ ev'.calls[1].cmd = "create"
            /\ UNCHANGED <<registry, renv>>]_vars

\* C7's case: a load with set_active has failed in R for an id that is
\* registered under the kind and is not the active one.
C7_Witness ==
    /\ ev.op = "load_dataset" /\ ev.status = "error" /\ ev.set_active
    /\ Len(ev.calls) = 1 /\ ~ev.calls[1].ok
    /\ ev.id \in DOMAIN Handles(Cur, ev.kind)
    /\ Active(Cur, ev.kind) # ev.id

\* C8: a successful load_dataset of an id that is already registered under
\* the kind leaves one handle under the id, and R was told to remove the
\* object of the first handle before the create command of the second.
C8_ReloadReleasesFirst ==
    [][\A t \in Tasks :
         (/\ IsLoadResume(t)
          /\ ev'.status = "success"
          /\ task[t].id \in DOMAIN Handles(Cur, task[t].kind)) =>
            LET old == Handles(Cur, task[t].kind)[task[t].id]
            IN  /\ task[t].id \in DOMAIN Handles(Cur', task[t].kind)
                /\ \E i, j \in 1..Len(ev'.calls) :
                      /\ i < j
                      /\ ev'.calls[i].cmd = "rm" /\ ev'.calls[i].name = old
                      /\ ev'.calls[j].cmd = "create"]_vars

\* C13: unload_dataset of a registered handle removes the handle, clears the
\* kind's active pointer if it named the handle and returns success, whether
\* the rm command returns, raises, or no R runtime is attached.
C13_UnloadSurvivesReleaseFailure ==
    [][(IsUnload /\ ev'.id \in DOMAIN Handles(Cur, ev'.kind)) =>
          /\ ev'.status = "success"
          /\ ev'.id \notin DOMAIN Handles(Cur', ev'.kind)
          /\ DOMAIN Handles(Cur', ev'.kind) = DOMAIN Handles(Cur, ev'.kind) \ {ev'.id}
          /\ Active(Cur', ev'.kind) # ev'.id
          /\ ev'.detail = ""]_vars

\* C13's case: the rm command of an unload has raised; the handle is gone,
\* the kind's pointer is unset and R still holds the object.
C13_Witness ==
    /\ ev.op = "unload_dataset" /\ ev.status = "success"
    /\ Len(ev.calls) = 1 /\ ~ev.calls[1].ok
    /\ ev.id \notin DOMAIN Handles(Cur, ev.kind)
    /\ Active(Cur, ev.kind) = None
    /\ ev.calls[1].name \in DOMAIN renv

\* The step is the first half of load_dataset, called with the request that
\* ev' echoes and the two paths.
IsLoadBegin(t, request_db_path, env_db_path) ==
    /\ ev'.op = "load_dataset" /\ task[t].pc = "idle"
    /\ LoadBegin(t, ev'.id, ev'.kind, request_db_path, env_db_path, ev'.set_active)

C16_LoadErrorQuotesUpstream ==
    [][\A t \in Tasks :
         (/\ IsLoadResume(t)
          /\ Len(ev'.calls) = 1 /\ ~ev'.calls[1].ok) =>
            /\ ev'.status = "error"
            /\ ev'.detail = RErrorText]_vars

-----------------------------------------------------------------------------
(* Properties of the result cache *)

-----------------------------------------------------------------------------
(* Properties of the cache keys *)

\* What a key is said to depend on.
Triple(q) == <<q.operation, q.id, q.disc>>

\* C10: the same request gets the same key, and two requests that differ in
\* operation, in dataset id or in discriminator get different keys, whether
\* a data-loading tool or generate_cache_key builds them.
C10_KeysInjective ==
    Len(kd.keys) = 2 =>
        /\ kd.reqs[1] = kd.reqs[2] => kd.keys[1] = kd.keys[2]
        /\ Triple(kd.reqs[1]) # Triple(kd.reqs[2]) => kd.keys[1] # kd.keys[2]

\* The keys of the four data-loading tools alone are different for different
\* requests.
LoaderKeysInjective ==
    (/\ Len(kd.keys) = 2
     /\ kd.reqs[1].by # "generate_cache_key"
     /\ kd.reqs[2].by # "generate_cache_key") =>
        /\ kd.reqs[1] = kd.reqs[2] => kd.keys[1] = kd.keys[2]
        /\ Triple(kd.reqs[1]) # Triple(kd.reqs[2]) => kd.keys[1] # kd.keys[2]

-----------------------------------------------------------------------------
(* Properties of the normalization checks *)

\* The table of the entry under AuditKey, when the entry holds one.
HoldsTable == AuditKey \in DOMAIN data_cache /\ data_cache[AuditKey].data.type = "DataFrame"
TableValues == Flatten(data_cache[AuditKey].data.values)

\* C11: check_zscore_normalization of an entry that holds a table returns a
\* result, neither an error nor an exception, whose is_normalized is the flag
\* the entry's metadata records and whose mean-near-zero verdict is computed
\* from the table's values.
C11_AuditReportsClaimAndObservation ==
    (ev.op = "check_zscore_normalization" /\ HoldsTable) =>
        /\ ev.status = "success"
        /\ ev.is_normalized = ZscoreNormalized(data_cache[AuditKey].metadata)
        /\ ev.validation_info.outcome = "stats"
        /\ ~HasNaN(TableValues) =>
              ev.validation_info.mean_close_to_zero = AbsMeanBelowTenth(TableValues)

\* C19: on every table both checks say mean-near-zero exactly when
\* |mean| < 0.1 and unit-variance exactly when 0.8 < std < 1.2, the missing
\* values left out, so their verdicts are the same.
C19_SameThresholds ==
    (HoldsTable /\ DropNaN(TableValues) # <<>>) =>
        LET table == data_cache[AuditKey].data
            kept == DropNaN(TableValues)
        IN  /\ ValidationInfo(table).mean_close_to_zero = AbsMeanBelowTenth(kept)
            /\ ValidationInfo(table).std_close_to_one = StdBetween(kept)
            /\ check_normalization_quality(table).mean_centered = AbsMeanBelowTenth(kept)
            /\ check_normalization_quality(table).unit_variance = StdBetween(kept)

\* C20: a table with no value left once the missing values are dropped gets
\* the error outcome from either check, never statistics.
C20_EmptyDataIsAnError ==
    (HoldsTable /\ DropNaN(TableValues) = <<>>) =>
        /\ ValidationInfo(data_cache[AuditKey].data).outcome # "stats"
        /\ ev.op = "check_zscore_normalization" => ev.status = "error"
        /\ ev.op = "check_normalization_quality" => ev.outcome = "No valid values found"

\* The handle map and the active pointer of a kind, now.
HandlesNow(dataset_type) == IF dataset_type = "DromaSet" THEN datasets ELSE multidatasets
ActiveNow(dataset_type) ==
    IF dataset_type = "DromaSet" THEN active_dataset ELSE active_multidataset

\* The step is a call for the handle (id, kind) that returned success.
Succeeded(op, dataset_id, dataset_type) ==
    /\ ev'.op = op /\ ev'.status = "success"
    /\ ev'.id = dataset_id /\ ev'.kind = dataset_type

\* C24: a handle gets registered only by a successful load_dataset for it and
\* unregistered only by a successful unload_dataset for it; it becomes active
\* only while registered, by a load_dataset with set_active or a
\* set_active_dataset for it; it stops being active only by its own unload,
\* which leaves the pointer None, or by a load or set_active that makes
\* another registered handle of its kind active; a successful unload leaves
\* it neither registered nor active.
C24_HandleLifecycle ==
    [][\A k \in DatasetTypes, id \in DatasetIds :
         /\ (id \notin DOMAIN HandlesNow(k) /\ id \in DOMAIN HandlesNow(k)') =>
                Succeeded("load_dataset", id, k)
         /\ (id \in DOMAIN HandlesNow(k) /\ id \notin DOMAIN HandlesNow(k)') =>
                Succeeded("unload_dataset", id, k)
         /\ (ActiveNow(k) # id /\ ActiveNow(k)' = id) =>
                /\ id \in DOMAIN HandlesNow(k)'
                /\ \/ Succeeded("load_dataset", id, k) /\ ev'.set_active
                   \/ Succeeded("set_active_dataset", id, k)
         /\ (ActiveNow(k) = id /\ ActiveNow(k)' # id) =>
                \/ Succeeded("unload_dataset", id, k) /\ ActiveNow(k)' = None
                \/ /\ ActiveNow(k)' \in DOMAIN HandlesNow(k)'
                   /\ \/ Succeeded("load_dataset", ActiveNow(k)', k) /\ ev'.set_active
                      \/ Succeeded("set_active_dataset", ActiveNow(k)', k)
         /\ (Succeeded("unload_dataset", id, k) /\ IsUnload) =>
                id \notin DOMAIN HandlesNow(k)' /\ ActiveNow(k)' # id]_vars

\* A MultiDromaSet was unloaded while the other one stays registered, and
\* the pointer of the kind is None.
C24_Witness ==
    /\ ev.op = "unload_dataset" /\ ev.status = "success" /\ ev.kind = "MultiDromaSet"
    /\ ev.id \notin DOMAIN multidatasets
    /\ multidatasets # <<>>
    /\ active_multidataset = None

\* The handles registered now, as (id, kind) pairs.
RegisteredHandles ==
    {<<id, "DromaSet">> : id \in DOMAIN datasets}
       \cup {<<id, "MultiDromaSet">> : id \in DOMAIN multidatasets}

\* C26: no two registered handles, of the same kind or not, hold the same R
\* object name.
C26_RObjectNamesAreExclusive ==
    \A h1, h2 \in RegisteredHandles :
        HandlesNow(h1[2])[h1[1]] = HandlesNow(h2[2])[h2[1]] => h1 = h2

\* The ids that the details of a listing mark as the active one of a kind.
MarkedActive(dataset_details, dataset_type) ==
    {id \in DOMAIN dataset_details :
        dataset_details[id][1] = dataset_type /\ dataset_details[id][3]}

\* C25: list_loaded_datasets returns the ids registered under each kind and
\* their number as total_loaded; with details it returns one entry per
\* registered handle, and the entries marked active are those of the
\* handles the two pointers name.
C25_ListingMatchesRegistry ==
    [][ev'.op = "list_loaded_datasets" =>
          /\ ev'.status = "success"
          /\ ev'.datasets = DOMAIN datasets
          /\ ev'.multidatasets = DOMAIN multidatasets
          /\ ev'.total_loaded = Cardinality(RegisteredHandles)
          /\ ev'.include_details =>
                /\ Cardinality(DOMAIN ev'.dataset_details) = Cardinality(RegisteredHandles)
                /\ \A k \in DatasetTypes :
                      MarkedActive(ev'.dataset_details, k)
                         = IF ActiveNow(k) = None THEN {} ELSE {ActiveNow(k)}]_vars

\* The same while no id is registered under both kinds.
ListingMatchesRegistryOfDistinctIds ==
    [][(ev'.op = "list_loaded_datasets"
           /\ (DOMAIN datasets) \cap (DOMAIN multidatasets) = {}) =>
          /\ ev'.total_loaded = Cardinality(RegisteredHandles)
          /\ ev'.include_details =>
                /\ Cardinality(DOMAIN ev'.dataset_details) = Cardinality(RegisteredHandles)
                /\ \A k \in DatasetTypes :
                      MarkedActive(ev'.dataset_details, k)
                         = IF ActiveNow(k) = None THEN {} ELSE {ActiveNow(k)}]_vars

-----------------------------------------------------------------------------
(* Properties of the data-loading tools and the reading tools (DataSpec) *)

\* A step in which a multi-project loader resumed after its await.
IsMultiLoaderResume(t) ==
    /\ ev'.op \in MultiLoaders
    /\ task[t].pc \in MultiLoaders
    /\ task'[t].pc = "idle"

\* A call of R in the sequence raised.
SomeCallRaised(calls) == \E i \in 1..Len(calls) : ~calls[i].ok

\* C17: when R raises during a data-loading tool, the tool returns an error
\* result, the call that raised is the last one the tool makes and no command
\* is sent twice (no retry), and the cache is left as it was.
C17_BridgeFailureSurfacesOnce ==
    [][\A t \in Tasks :
         (IsMultiLoaderResume(t) /\ SomeCallRaised(ev'.calls)) =>
             /\ ev'.status = "error"
             /\ ~ev'.calls[Len(ev'.calls)].ok
             /\ \A i \in 1..(Len(ev'.calls) - 1) : ev'.calls[i].ok
             /\ \A i, j \in 1..Len(ev'.calls) :
                    ev'.calls[i].cmd = ev'.calls[j].cmd => i = j
             /\ data_cache' = data_cache]_vars

\* A loader whose R command raised has returned, with an entry in the cache.
C17_Witness ==
    /\ ev.op \in MultiLoaders
    /\ ev.status = "error"
    /\ ev.calls # <<>>
    /\ SomeCallRaised(ev.calls)
    /\ data_cache # <<>>

\* A step in which a data-loading tool started on a request.
IsLoaderBegin ==
    /\ ev'.op \in SingleLoaders \cup MultiLoaders
    /\ \A t \in Tasks : task[t].pc \in MultiLoaders => task'[t] = task[t]

\* The dataset a loader request names does not resolve under the kind the
\* loader needs: the id is not registered under it, or none is named and
\* the pointer of the kind is unset.
Unresolved(op, id) ==
    IF op \in SingleLoaders THEN get_dataset(Cur, id) = None
    ELSE get_multidataset(Cur, id) = None

\* How a loader ends on a dataset that does not resolve: an error result,
\* no call of R, the cache as it was.
EndsAsNotFound ==
    /\ ev'.status = "error"
    /\ ev'.calls = <<>>
    /\ data_cache' = data_cache
    /\ UNCHANGED <<registry, renv, task>>

\* C18: a data-loading tool whose dataset does not resolve under the kind it
\* needs returns an error result: it does not raise, calls R never and leaves
\* the cache as it was.
C18_UnresolvedIsAnErrorResult ==
    [][(IsLoaderBegin /\ Unresolved(ev'.op, ev'.id)) => EndsAsNotFound]_vars

\* The same for the multi-project loaders alone.
MultiLoaderUnresolvedIsAnErrorResult ==
    [][(IsLoaderBegin /\ ev'.op \in MultiLoaders /\ Unresolved(ev'.op, ev'.id))
          => EndsAsNotFound]_vars

\* The tools and methods that only read.
ReadingOps == {"resolve", "list_loaded_datasets", "get_cached_data",
               "get_cached_data_info", "check_zscore_normalization"}

\* C12: get_dataset and get_multidataset, list_loaded_datasets,
\* get_cached_data, get_cached_data_info and check_zscore_normalization leave
\* both registry maps, both active pointers and every cache entry (data,
\* metadata and timestamp) as they were.
C12_ReadingChangesNothing ==
    [][ev'.op \in ReadingOps =>
          UNCHANGED <<datasets, multidatasets, active_dataset, active_multidataset,
                      data_cache>>]_vars

\* The audit has run on an entry of the cache while a MultiDromaSet is
\* registered and active.
C12_Witness ==
    /\ ev.op = "check_zscore_normalization"
    /\ ev.key \in DOMAIN data_cache
    /\ active_multidataset \in DOMAIN multidatasets
    /\ data_cache[ev.key].metadata = "{'zscore_normalized': True}"

\* The values get_dataset and get_multidataset may return: None or the name
\* of an R object of the registry.
ResolveValues ==
    {None} \cup {datasets[i] : i \in DOMAIN datasets}
           \cup {multidatasets[i] : i \in DOMAIN multidatasets}

\* The values get_cached_data may return: None or the data of an entry.
CachedValues == {<<>>} \cup {<<data_cache[k].data>> : k \in DOMAIN data_cache}

\* C14: with no R attached, load_dataset returns an error result and leaves
\* the registry as it was; list_loaded_datasets, get_dataset and
\* get_multidataset, set_active_dataset on a registered id, get_cached_data
\* and the listing of get_cached_data_info succeed whether or not R is
\* attached.
C14_NoRuntimeStillReads ==
    [][/\ (~r /\ ev'.op = "load_dataset" /\ ev'.status # "awaiting") =>
              /\ ev'.status = "error"
              /\ ev'.calls = <<>>
              /\ UNCHANGED <<registry, renv>>
       /\ ev'.op = "list_loaded_datasets" => ev'.status = "success"
       /\ ev'.op = "resolve" => ev'.result \in ResolveValues
       /\ (IsSetActive /\ Resolve(Cur, ev'.id, ev'.kind) # None) =>
              ev'.status = "success"
       /\ ev'.op = "get_cached_data" => ev'.result \in CachedValues
       /\ (ev'.op = "get_cached_data_info" /\ ev'.key = "None") =>
              ev'.status = "success"]_vars

\* With no R attached, load_dataset has got past its path check and has
\* returned its error.
C14_Witness ==
    /\ ~r
    /\ ev.op = "load_dataset"
    /\ ev.status = "error"
    /\ ev.detail = "R environment not available"

\* The tools that take the key of an entry and use its data.
Consumers == {"check_zscore_normalization", "get_cached_data_info",
              "export_cached_data"}

\* C22: a loader whose R calls all returned ends with status success and has
\* cached what the conversion gave, table or not, under its key; and the
\* audit, the cache info and the export of a cached value that is no table
\* return a result, none raises.
C22_OpaqueResultIsCachedAndRead ==
    [][/\ \A t \in Tasks :
            (IsMultiLoaderResume(t) /\ ev'.calls # <<>> /\ ~SomeCallRaised(ev'.calls)) =>
                /\ ev'.status = "success"
                /\ LoaderKey(task[t].pc, task[t].id) \in DOMAIN data_cache'
                /\ data_cache'[LoaderKey(task[t].pc, task[t].id)].data
                      \in {ConvertRToPython(RResult(LoaderFunction(task[t].pc),
                                                    task[t].name, c)) : c \in RClasses}
                /\ \A k \in DOMAIN data_cache :
                      k # LoaderKey(task[t].pc, task[t].id) => 
                         k \in DOMAIN data_cache' /\ data_cache'[k] = data_cache[k]
       /\ (/\ ev'.op \in Consumers
           /\ ev'.key \in DOMAIN data_cache
           /\ data_cache[ev'.key].data = OpaqueDict
           /\ UNCHANGED <<registry, renv, task, cache>>) =>
               ev'.status \in {"success", "error"}]_vars

\* A loader has cached a value that is no table, and the audit has returned
\* for it.
C22_Witness ==
    /\ ev.op = "check_zscore_normalization"
    /\ ev.key \in DOMAIN data_cache
    /\ data_cache[ev.key].data = OpaqueDict
    /\ ev.status = "success"

RegisteredMultiNames == {multidatasets[id] : id \in DOMAIN multidatasets}

\* C28: every R call a loader makes names the R object of a MultiDromaSet
\* that is registered when the call is made, and a loader caches an entry
\* only for a MultiDromaSet that is registered when its command runs.
C28_LoaderCallsNameRegisteredObjects ==
    [][\A t \in Tasks :
         IsMultiLoaderResume(t) =>
            /\ \A i \in 1..Len(ev'.calls) : ev'.calls[i].name \in RegisteredMultiNames
            /\ data_cache' # data_cache => task[t].name \in RegisteredMultiNames]_vars

\* The step is a loader that returned success and wrote the entry of key.
WroteEntry(key) ==
    \E t \in Tasks :
        /\ IsMultiLoaderResume(t)
        /\ ev'.status = "success"
        /\ LoaderKey(task[t].pc, task[t].id) = key

\* C27: no step removes an entry of the cache, and an entry appears or
\* changes only in the step of a loader that returned success for its key:
\* load_dataset, set_active_dataset, unload_dataset, the reading tools and
\* every call that fails leave the cache as it was.
C27_EntriesStayUntilRewritten ==
    [][/\ DOMAIN data_cache \subseteq DOMAIN data_cache'
       /\ \A key \in DOMAIN data_cache' :
             (key \notin DOMAIN data_cache \/ data_cache'[key] # data_cache[key])
                => WroteEntry(key)]_vars

\* The MultiDromaSet was unloaded and the entries computed from it are still
\* in the cache.
C27_Witness ==
    /\ ev.op = "unload_dataset" /\ ev.status = "success"
    /\ multidatasets = <<>>
    /\ Cardinality(DOMAIN data_cache) = 2

\* The tools that write to the registry.
RegistryOps == {"load_dataset", "set_active_dataset", "unload_dataset"}

\* C29: the handle map and the active pointer of a kind differ after a step
\* only when the step is a load_dataset, set_active_dataset or
\* unload_dataset for that kind that returned success; calls for the other
\* kind, the loaders, the cache and reading tools and every call that fails
\* leave them as they were.
C29_KindsAreIndependent ==
    [][\A k \in DatasetTypes :
          (HandlesNow(k)' # HandlesNow(k) \/ ActiveNow(k)' # ActiveNow(k)) =>
              /\ ev'.op \in RegistryOps
              /\ ev'.kind = k
              /\ ev'.status = "success"]_vars

\* A MultiDromaSet was unloaded while a DromaSet is registered and active.
C29_Witness ==
    /\ ev.op = "unload_dataset" /\ ev.status = "success" /\ ev.kind = "MultiDromaSet"
    /\ active_dataset \in DOMAIN datasets
    /\ data_cache # <<>>

-----------------------------------------------------------------------------
(* Properties of the exports (ExportSpec) *)

\* A step of save_analysis_result, of cleanup_temp_files.
IsSave == ev'.op = "save_analysis_result" /\ SaveAnalysisResult(ev'.name, ev'.format)
IsCleanup == ev'.op = "cleanup_temp_files" /\ CleanupTempFiles(ev'.max_age_hours)

\* C30: a save without a name returns an export id that the registry does
\* not hold yet.
C30_AutoNameIsFresh ==
    [][(IsSave /\ ev'.name = None /\ ev'.status = "returned")
          => ev'.export_id \notin DOMAIN EXPORTS]_vars

\* The entries a sweep may remove: those of the result cache and of the two
\* registries of temporary files.
Entries == Cardinality(DOMAIN data_cache) + Cardinality(DOMAIN EXPORTS)
              + Cardinality(DOMAIN FIGURES)

\* C21: cleanup_temp_files with max age 0 leaves no entry, with an unbounded
\* max age it removes none, and the counts it returns add up: the entries
\* before are the entries it reports removed plus the entries that remain.
C21_SweepBounds ==
    [][IsCleanup =>
          /\ ev'.max_age_hours = <<0>> => Entries' = 0
          /\ ev'.max_age_hours = Infinity => Entries' = Entries
          /\ Entries = ev'.cleaned_exports + ev'.cleaned_figures + Entries']_vars

\* The same for the export registry alone, without files deleted from
\* outside nor files written at the very time of the sweep.
SweepBoundsOfAgedExports ==
    [][(IsCleanup /\ \A id \in DOMAIN EXPORTS :
                        /\ EXPORTS[id] \in DOMAIN files
                        /\ files[EXPORTS[id]] < now) =>
          /\ ev'.max_age_hours = <<0>> => EXPORTS' = <<>>
          /\ ev'.max_age_hours = Infinity => EXPORTS' = EXPORTS
          /\ Cardinality(DOMAIN EXPORTS)
                = ev'.cleaned_exports + Cardinality(DOMAIN EXPORTS')]_vars

====
